---------------------------- MODULE Spec2Model ----------------------------
(***************************************************************************)
(* User-based collaborative filtering (src/Pj3/Ex3.py): load_ratings,      *)
(* cosine_similarity, recommend and the part of main that drives them;     *)
(* the threaded word count of src/Pj5/Ex5.py; and the log parser of        *)
(* src/Pj4/Ex4-1.py.                                                       *)
(*                                                                         *)
(* Python dicts keep insertion order, so a dict is a sequence of           *)
(* <<key, value>> pairs with distinct keys.  The rating store is a dict    *)
(* user -> (dict item -> score).                                           *)
(*                                                                         *)
(* A score is a JSON number of at most three decimals, held as an integer  *)
(* count of thousandths.  Every float is an IEEE-754 binary64 value        *)
(* [m, e] standing for m * 2^e, with m a 53-bit natural held in limbs, and *)
(* every operation rounds to nearest, ties to even, as the hardware does   *)
(* for +, *, / and sqrt.  A rounded prediction is an integer count of      *)
(* hundredths, the two decimals round(x, 2) keeps.                         *)
(*                                                                         *)
(* A Python set iterates in the order of its hash table, which depends on  *)
(* the hash seed of the process: hash_seed stands for it.                  *)
(*                                                                         *)
(* Spec is main, which loads the file and makes one call of recommend,     *)
(* with any target and any top_n in 0..DefaultTopN.  The other             *)
(* specifications drive parts of the program on their own inputs; each     *)
(* leaves the variables of the others at rest.                             *)
(***************************************************************************)
EXTENDS Integers, Sequences, FiniteSets, TLC

VARIABLES
    hash_seed,    \* the hash seed of the process
    \* main and the callers of recommend
    raw,          \* the parsed content of ratings.json
    main_ratings, \* main's ratings: what load_ratings returned
    load_error,   \* the exception load_ratings printed, NoError if none
    pc,           \* main: "start", "ready" (store loaded), "exit"
    ncalls,       \* how many times recommend has been called
    last_user_id, \* the arguments of the last call of recommend
    last_top_n,
    ret,          \* what the last call returned, with its locals
    repeated,     \* history: the last call repeated the arguments of the one before
    agreed,       \* history: the last call returned what the one before returned
    failed_before, \* history: a call before the last one was for an unknown user
    \* cosine_similarity on its own
    sim_a,        \* two rating vectors
    sim_b,
    sim_ab,       \* what cosine_similarity(sim_a, sim_b) did
    sim_ba,       \* what cosine_similarity(sim_b, sim_a) did
    sim_pc,       \* "start", "done"
    \* concurrent calls of recommend on one store
    con_ratings,  \* the store the calls share
    threads,      \* the locals of each call: its arguments, position and result
    cells,        \* the dicts that the names scores and sim_sums are bound to
    overlapped,   \* history: a call took a step while another was under way
    \* the accumulation of recommend in another order
    ord_ratings,  \* a store
    ord_user,     \* the target
    ord_out,      \* the order and the partition tried, and the accumulators got
    ord_pc,       \* "start", "done"
    \* the word count of Ex5.py
    wc_file,      \* the text file: whether it can be read, and its lines
    stopwords,    \* the stop words loaded
    chunks,       \* what read_file_chunks returned
    results,      \* main's results list, one slot per thread
    workers,      \* the threads: position and locals of each count_words
    wc_main,      \* main: its position and loop index
    final_count,  \* main's final_count
    written,      \* history: the indexes in the order their threads wrote
    \* read_file_chunks on its own
    rc_file,      \* the text file
    rc_num_chunks, \* the num_chunks argument
    rc_chunks,    \* what the call returned
    rc_pc,        \* "start", "done"
    \* parse_log of Ex4-1.py
    log_file,     \* the lines of the log file
    filter_date,  \* the filter_date argument
    log_line,     \* how many lines the loop has read
    ip_counter,   \* the locals of parse_log
    url_counter,
    total_lines,
    valid_lines,
    log_ret,      \* what parse_log returned
    log_pc        \* "start", "loop", "done"

mainVars == <<raw, main_ratings, load_error, pc, ncalls, last_user_id,
              last_top_n, ret, repeated, agreed, failed_before>>
simVars == <<sim_a, sim_b, sim_ab, sim_ba, sim_pc>>
conVars == <<con_ratings, threads, cells, overlapped>>
ordVars == <<ord_ratings, ord_user, ord_out, ord_pc>>
wcVars == <<wc_file, stopwords, chunks, results, workers, wc_main,
            final_count, written>>
rcVars == <<rc_file, rc_num_chunks, rc_chunks, rc_pc>>
logVars == <<log_file, filter_date, log_line, ip_counter, url_counter,
             total_lines, valid_lines, log_ret, log_pc>>

\* The variables of the other specifications, as each one sees them.
notMain == <<simVars, conVars, ordVars, wcVars, rcVars, logVars>>
notSim == <<mainVars, conVars, ordVars, wcVars, rcVars, logVars>>
notCon == <<mainVars, simVars, ordVars, wcVars, rcVars, logVars>>
notOrd == <<mainVars, simVars, conVars, wcVars, rcVars, logVars>>
notWc == <<hash_seed, mainVars, simVars, conVars, ordVars, rcVars, logVars>>
notRc == <<hash_seed, mainVars, simVars, conVars, ordVars, wcVars, logVars>>
notLog == <<hash_seed, mainVars, simVars, conVars, ordVars, wcVars, rcVars>>

vars == <<hash_seed, mainVars, simVars, conVars, ordVars, wcVars, rcVars,
          logVars>>

\* ------------------------------------------------------------------ bounds
MaxUsers == 3
NumItems == 3
\* users of a file that may hold out-of-range scores
MaxRawUsers == 2
\* calls of recommend on one loaded store
MaxCalls == 2
\* calls of recommend under way at once
NumThreads == 2

\* top_n=3, the default of recommend; calls draw top_n from 0..DefaultTopN
DefaultTopN == 3

AllUserIds == <<"u1", "u2", "u3", "u4", "u5">>
AllItemIds == <<"a", "b", "c", "d", "e">>

Users == {AllUserIds[i] : i \in 1..MaxUsers}
Items == {AllItemIds[i] : i \in 1..NumItems}
\* a user id that is never a key of the store
Ghost == "ghost"

\* Position of an item identifier in ascending identifier order.
ItemRank(item) == CHOOSE i \in 1..Len(AllItemIds) : AllItemIds[i] = item

\* The thousandths in 1: a score s of the file is held as s * ScoreUnit.
ScoreUnit == 1000

\* Scores of the files enumerated: the two ends of the valid range, and
\* with them one value above it.
ValidScores == {0, 5 * ScoreUnit}
RawScores == ValidScores \cup {6 * ScoreUnit}

\* -------------------------------------------------------------- dicts
EmptyDict == << >>

Keys(d) == {d[i][1] : i \in DOMAIN d}

Has(d, k) == \E i \in DOMAIN d : d[i][1] = k

Get(d, k) == d[CHOOSE i \in DOMAIN d : d[i][1] = k][2]

\* d[k] = v: an existing key keeps its position, a new key goes last.
Put(d, k, v) ==
    IF Has(d, k)
    THEN [i \in DOMAIN d |-> IF d[i][1] = k THEN <<k, v>> ELSE d[i]]
    ELSE Append(d, <<k, v>>)

\* d.setdefault(k, v)
SetDefault(d, k, v) == IF Has(d, k) THEN d ELSE Append(d, <<k, v>>)

\* ------------------------------------------------------- load_ratings
MinScore == 0 * ScoreUnit
MaxScore == 5 * ScoreUnit

\* No exception was raised.
NoError == << >>

\* Mutant of ValidScore: the upper bound taken as exclusive.
ValidScoreExclusive(score) == MinScore <= score /\ score < MaxScore

\* The validation test of one score.
ValidScore(score) == MinScore <= score /\ score <= MaxScore

\* for item, score in items.items(): the first offending rating of one
\* user, as the ValueError names it: <<user, item, score>>.
RECURSIVE ScanItems(_, _, _)
ScanItems(user, items, j) ==
    IF j > Len(items) THEN NoError
    ELSE IF ~ValidScore(items[j][2]) THEN <<user, items[j][1], items[j][2]>>
    ELSE ScanItems(user, items, j + 1)

\* for user, items in data.items(): stops at the first raise.
RECURSIVE ScanUsers(_, _)
ScanUsers(data, i) ==
    IF i > Len(data) THEN NoError
    ELSE LET e == ScanItems(data[i][1], data[i][2], 1)
         IN  IF e # NoError THEN e ELSE ScanUsers(data, i + 1)

\* load_ratings: the data itself when no score raises, {} (and the printed
\* error) otherwise.
load_ratings(data) ==
    LET e == ScanUsers(data, 1)
    IN  [store |-> IF e = NoError THEN data ELSE EmptyDict, error |-> e]

\* -------------------------------------------------- natural numbers
\* A natural is the sequence of its base-B digits (limbs), least
\* significant first, with no leading zero limb: 0 is << >>.
LimbBits == 14
B == 2 ^ LimbBits
\* The bits of a binary64 significand.
MantissaBits == 53

RECURSIVE NTrim(_)
NTrim(a) ==
    IF a = << >> THEN a
    ELSE IF a[Len(a)] = 0 THEN NTrim(SubSeq(a, 1, Len(a) - 1)) ELSE a

RECURSIVE NFromInt(_)
NFromInt(n) == IF n = 0 THEN << >> ELSE <<n % B>> \o NFromInt(n \div B)

RECURSIVE NToInt(_)
NToInt(a) == IF a = << >> THEN 0 ELSE a[1] + B * NToInt(Tail(a))

Limb(a, i) == IF i <= Len(a) THEN a[i] ELSE 0

RECURSIVE NAddFrom(_, _, _, _)
NAddFrom(a, b, i, c) ==
    IF i > Len(a) /\ i > Len(b) THEN (IF c = 0 THEN << >> ELSE <<c>>)
    ELSE LET s == Limb(a, i) + Limb(b, i) + c
         IN  <<s % B>> \o NAddFrom(a, b, i + 1, s \div B)

NAdd(a, b) == NAddFrom(a, b, 1, 0)

RECURSIVE NSubFrom(_, _, _, _)
NSubFrom(a, b, i, br) ==
    IF i > Len(a) THEN << >>
    ELSE LET d == a[i] - Limb(b, i) - br
         IN  IF d < 0 THEN <<d + B>> \o NSubFrom(a, b, i + 1, 1)
             ELSE <<d>> \o NSubFrom(a, b, i + 1, 0)

NSub(a, b) == NTrim(NSubFrom(a, b, 1, 0))

RECURSIVE NCmpAt(_, _, _)
NCmpAt(a, b, i) ==
    IF i = 0 THEN 0
    ELSE IF a[i] > b[i] THEN 1
    ELSE IF a[i] < b[i] THEN -1
    ELSE NCmpAt(a, b, i - 1)

NCmp(a, b) ==
    IF Len(a) > Len(b) THEN 1
    ELSE IF Len(a) < Len(b) THEN -1
    ELSE NCmpAt(a, b, Len(a))

RECURSIVE NMulSmallFrom(_, _, _, _)
NMulSmallFrom(a, d, i, c) ==
    IF i > Len(a) THEN NFromInt(c)
    ELSE LET p == a[i] * d + c
         IN  <<p % B>> \o NMulSmallFrom(a, d, i + 1, p \div B)

NMulSmall(a, d) == IF d = 0 THEN << >> ELSE NMulSmallFrom(a, d, 1, 0)

NShlLimbs(a, k) == IF a = << >> THEN a ELSE [i \in 1..k |-> 0] \o a

RECURSIVE NMulFrom(_, _, _)
NMulFrom(a, b, i) ==
    IF i > Len(b) THEN << >>
    ELSE NAdd(NMulSmall(a, b[i]), NShlLimbs(NMulFrom(a, b, i + 1), 1))

NMul(a, b) == NMulFrom(a, b, 1)

NShl(a, k) == NShlLimbs(NMulSmall(a, 2 ^ (k % LimbBits)), k \div LimbBits)

\* quotient limbs 1..i of (r * B^i + a[1..i]) by the small d
RECURSIVE NDivSmallAt(_, _, _, _)
NDivSmallAt(a, d, i, r) ==
    IF i = 0 THEN << >>
    ELSE LET cur == r * B + a[i]
         IN  NDivSmallAt(a, d, i - 1, cur % d) \o <<cur \div d>>

NDivSmall(a, d) == NTrim(NDivSmallAt(a, d, Len(a), 0))

NShr(a, k) ==
    IF k \div LimbBits >= Len(a) THEN << >>
    ELSE NDivSmall(SubSeq(a, k \div LimbBits + 1, Len(a)), 2 ^ (k % LimbBits))

\* the low k bits of a are all zero
NLowZero(a, k) ==
    /\ \A i \in 1..(k \div LimbBits) : Limb(a, i) = 0
    /\ Limb(a, k \div LimbBits + 1) % (2 ^ (k % LimbBits)) = 0

RECURSIVE BitLen(_)
BitLen(n) == IF n = 0 THEN 0 ELSE 1 + BitLen(n \div 2)

NBitLen(a) == IF a = << >> THEN 0 ELSE LimbBits * (Len(a) - 1) + BitLen(a[Len(a)])

NOdd(a) == Limb(a, 1) % 2 = 1

\* largest q with q * d <= cur, for cur < d * B and d with a full top limb
RECURSIVE QFix(_, _, _)
QFix(cur, d, q) == IF NCmp(NMulSmall(d, q), cur) > 0 THEN QFix(cur, d, q - 1) ELSE q

QDigit(cur, d) ==
    IF NCmp(cur, d) < 0 THEN 0
    ELSE LET n == Len(d)
             est == (Limb(cur, n + 1) * B + Limb(cur, n)) \div d[n]
         IN  QFix(cur, d, IF est > B - 1 THEN B - 1 ELSE est)

\* long division of limbs 1..i of a by d, entered with remainder r < d
RECURSIVE NDivAt(_, _, _, _)
NDivAt(a, d, i, r) ==
    IF i = 0 THEN [q |-> << >>, r |-> r]
    ELSE LET cur == NTrim(<<a[i]>> \o r)
             qd == QDigit(cur, d)
             rest == NDivAt(a, d, i - 1, NSub(cur, NMulSmall(d, qd)))
         IN  [q |-> rest.q \o <<qd>>, r |-> rest.r]

\* a div d, and whether the division is exact
NDivMod(a, d) ==
    LET s == LimbBits - BitLen(d[Len(d)])
        an == NShl(a, s)
        res == NDivAt(an, NShl(d, s), Len(an), << >>)
    IN  [q |-> NTrim(res.q), exact |-> res.r = << >>]

RECURSIVE NewtonSqrt(_, _)
NewtonSqrt(n, x) ==
    LET y == NShr(NAdd(x, NDivMod(n, x).q), 1)
    IN  IF NCmp(y, x) >= 0 THEN x ELSE NewtonSqrt(n, y)

NIsqrt(n) == IF n = << >> THEN n ELSE NewtonSqrt(n, NShl(<<1>>, (NBitLen(n) + 1) \div 2))

\* ------------------------------------------------------------- floats
\* A binary64 value m * 2^e >= 0: m = << >> for 0, else a natural of exactly
\* MantissaBits bits, so equal values are equal records.
Zero == [m |-> << >>, e |-> 0]

\* the float nearest (n + f) * 2^e, ties to even, where 0 <= f < 1 and
\* f > 0 iff sticky
RoundNE(n, e, sticky) ==
    LET len == NBitLen(n)
        k == len - MantissaBits
    IN  IF len = 0 THEN Zero
        ELSE IF k <= 0 THEN [m |-> NShl(n, -k), e |-> e + k]
        ELSE LET q2 == NShr(n, k - 1)
                 q == NShr(q2, 1)
                 restzero == NLowZero(n, k - 1) /\ ~sticky
                 up == NOdd(q2) /\ (~restzero \/ NOdd(q))
                 m == IF up THEN NAdd(q, <<1>>) ELSE q
             IN  IF NBitLen(m) > MantissaBits
                 THEN [m |-> NShr(m, 1), e |-> e + k + 1]
                 ELSE [m |-> m, e |-> e + k]

FromInt(n) == RoundNE(NFromInt(n), 0, FALSE)

FMul(x, y) ==
    IF x.m = << >> \/ y.m = << >> THEN Zero
    ELSE RoundNE(NMul(x.m, y.m), x.e + y.e, FALSE)

FAdd(x, y) ==
    IF x.m = << >> THEN y
    ELSE IF y.m = << >> THEN x
    ELSE LET e == IF x.e < y.e THEN x.e ELSE y.e
         IN  RoundNE(NAdd(NShl(x.m, x.e - e), NShl(y.m, y.e - e)), e, FALSE)

FDiv(x, y) ==
    IF x.m = << >> THEN Zero
    ELSE LET d == NDivMod(NShl(x.m, 56), y.m)
         IN  RoundNE(d.q, x.e - y.e - 56, ~d.exact)

FSqrt(x) ==
    IF x.m = << >> THEN Zero
    ELSE LET s == IF (x.e - 56) % 2 = 0 THEN 56 ELSE 57
             n == NShl(x.m, s)
             r == NIsqrt(n)
         IN  RoundNE(r, (x.e - s) \div 2, NMul(r, r) # n)

\* round(x, 2) in hundredths
Round2(x) ==
    IF x.m = << >> THEN 0
    ELSE LET n == NMulSmall(x.m, 100)
         IN  IF x.e >= 0 THEN NToInt(NShl(n, x.e))
             ELSE LET k == -x.e
                      q2 == NShr(n, k - 1)
                      q == NShr(q2, 1)
                      up == NOdd(q2) /\ (~NLowZero(n, k - 1) \/ NOdd(q))
                  IN  NToInt(q) + (IF up THEN 1 ELSE 0)

FLess(x, y) ==
    IF y.m = << >> THEN FALSE
    ELSE IF x.m = << >> THEN TRUE
    ELSE x.e < y.e \/ (x.e = y.e /\ NCmp(x.m, y.m) < 0)

\* x as an integer when it is one of 0..bound, else -1
IntegerIn(x, bound) ==
    IF x.m = << >> THEN 0
    ELSE IF x.e > 0 \/ x.e < -MantissaBits THEN -1
    ELSE IF ~NLowZero(x.m, -x.e) THEN -1
    ELSE LET n == NShr(x.m, -x.e)
         IN  IF Len(n) > 1 \/ n[1] > bound THEN -1 ELSE n[1]

\* math.sqrt of the small integers, evaluated once.
SqrtTableSize == 3 * 5 * 5
SqrtTable == [n \in 0..SqrtTableSize |-> FSqrt(FromInt(n))]

\* math.sqrt(x)
Sqrt(x) ==
    LET n == IntegerIn(x, SqrtTableSize)
    IN  IF n >= 0 THEN SqrtTable[n] ELSE FSqrt(x)

\* The float a score of the file is parsed to: the binary64 value nearest
\* to the decimal.
ToFloat(score) ==
    IF score % ScoreUnit = 0 THEN FromInt(score \div ScoreUnit)
    ELSE FDiv(FromInt(score), FromInt(ScoreUnit))

\* sum(seq): the terms are added left to right, starting from 0.
RECURSIVE SumFrom(_, _, _)
SumFrom(seq, k, acc) ==
    IF k > Len(seq) THEN acc ELSE SumFrom(seq, k + 1, FAdd(acc, seq[k]))

Sum(seq) == SumFrom(seq, 1, Zero)

\* ------------------------------------------------------ set iteration
\* A set of at most four str keys is a hash table of TableSlots slots.
\* The slot a key lands in depends on the hash of the key, which depends
\* on the hash seed of the process; a key that finds its slot taken
\* probes on.  The probe sequences are those of CPython 3.11 for the item
\* ids under PYTHONHASHSEED=0, where a, b and c do not collide, and under
\* PYTHONHASHSEED=5, where a and b do.
TableSlots == 8

HashSeeds == {0, 5}

ProbeSlots(seed, item) ==
    IF seed = 0
    THEN CASE item = "a" -> <<3, 0, 7, 2, 4, 1, 0, 3, 0, 3>>
           [] item = "b" -> <<6, 5, 2, 1, 5, 3, 0, 5, 1, 4>>
           [] item = "c" -> <<2, 6, 3, 4, 7, 6, 5, 1, 1, 1>>
           [] item = "d" -> <<0, 7, 2, 0, 7, 6, 2, 5, 3, 6>>
           [] item = "e" -> <<1, 1, 0, 7, 1, 1, 0, 3, 0, 4>>
    ELSE CASE item = "a" -> <<3, 7, 3, 6, 1, 5, 0, 0, 2, 7>>
           [] item = "b" -> <<3, 4, 2, 7, 4, 3, 0, 0, 4, 6>>
           [] item = "c" -> <<0, 1, 4, 1, 2, 5, 2, 2, 6, 5>>
           [] item = "d" -> <<6, 4, 6, 5, 7, 1, 4, 0, 1, 6>>
           [] item = "e" -> <<0, 2, 1, 4, 3, 6, 4, 2, 2, 6>>

\* An empty slot.
NoKey == ""

EmptyTable == [slot \in 1..TableSlots |-> NoKey]

\* The first slot probed for item that is free or holds item already.
RECURSIVE SlotFor(_, _, _, _)
SlotFor(seed, table, item, k) ==
    LET slot == ProbeSlots(seed, item)[k] + 1
    IN  IF table[slot] = NoKey \/ table[slot] = item THEN slot
        ELSE SlotFor(seed, table, item, k + 1)

\* set.add(item)
SetAdd(seed, table, item) ==
    [table EXCEPT ![SlotFor(seed, table, item, 1)] = item]

\* set(keys): the keys are added in their order.
RECURSIVE TableOf(_, _, _)
TableOf(seed, keys, k) ==
    IF k = 0 THEN EmptyTable
    ELSE SetAdd(seed, TableOf(seed, keys, k - 1), keys[k])

\* The keys of a set in the order it iterates them: by slot.
Iterate(table) == SelectSeq(table, LAMBDA key : key # NoKey)

\* set(d.keys())
KeySet(seed, d) == TableOf(seed, [i \in DOMAIN d |-> d[i][1]], Len(d))

\* set(d1.keys()) & set(d2.keys()) as it iterates: the intersection walks
\* the smaller operand (the second when they are equal in size) and adds
\* the keys it finds in the other to the result.
CommonItems(seed, d1, d2) ==
    LET walked == IF Len(d2) > Len(d1) THEN d1 ELSE d2
        other == IF Len(d2) > Len(d1) THEN d2 ELSE d1
        found == SelectSeq(Iterate(KeySet(seed, walked)), LAMBDA k : Has(other, k))
    IN  Iterate(TableOf(seed, found, Len(found)))

\* -------------------------------------------------- cosine_similarity
\* A call that returned v, and a call that raised e; divided tells whether
\* it made a division.
Returned(v) == [value |-> v, error |-> NoError, divided |-> FALSE]
Raised(e) == [value |-> Zero, error |-> e, divided |-> FALSE]

ZeroDivisionError == <<"ZeroDivisionError">>
KeyError == <<"KeyError">>

\* x / y
Divide(x, y) ==
    IF y = Zero THEN [Raised(ZeroDivisionError) EXCEPT !.divided = TRUE]
    ELSE [Returned(FDiv(x, y)) EXCEPT !.divided = TRUE]

\* The score of item in a rating vector, as a float.
Value(d, item) == ToFloat(Get(d, item))

\* Mutant of Quotient: the division is made whatever the denominator.
QuotientUnguarded(sum1, denominator) == Divide(sum1, denominator)

\* return sum1 / denominator if denominator != 0 else 0
Quotient(sum1, denominator) ==
    IF denominator # Zero THEN Divide(sum1, denominator) ELSE Returned(Zero)

\* sum(user_ratings1[item] * user_ratings2[item] for item in common_items)
sum1(common_items, user_ratings1, user_ratings2) ==
    Sum([k \in DOMAIN common_items |->
           FMul(Value(user_ratings1, common_items[k]),
                Value(user_ratings2, common_items[k]))])

\* sum(user_ratings[item] ** 2 for item in common_items): sum1_sq, sum2_sq
sum_sq(common_items, user_ratings) ==
    Sum([k \in DOMAIN common_items |->
           FMul(Value(user_ratings, common_items[k]),
                Value(user_ratings, common_items[k]))])

\* denominator = math.sqrt(sum1_sq) * math.sqrt(sum2_sq)
denominator(common_items, user_ratings1, user_ratings2) ==
    FMul(Sqrt(sum_sq(common_items, user_ratings1)),
         Sqrt(sum_sq(common_items, user_ratings2)))

\* Lines 23-30, reached with common_items.
CosineOver(common_items, user_ratings1, user_ratings2) ==
    IF common_items = << >> THEN Returned(Zero)
    ELSE Quotient(sum1(common_items, user_ratings1, user_ratings2),
                  denominator(common_items, user_ratings1, user_ratings2))

\* cosine_similarity in a process of hash seed seed.
cosine_similarity(seed, user_ratings1, user_ratings2) ==
    CosineOver(CommonItems(seed, user_ratings1, user_ratings2),
               user_ratings1, user_ratings2)

\* ------------------------------------------------------------ recommend
\* ratings.get(user_id): None is the empty dict's twin under "not".
None == << >>

DictGet(d, k) == IF Has(d, k) THEN Get(d, k) ELSE None

\* Mutant of Lookup: ratings.pop(user_id, None), which takes the target
\* out of the store.
LookupPopping(ratings, user_id) ==
    [value |-> DictGet(ratings, user_id),
     ratings |-> SelectSeq(ratings, LAMBDA entry : entry[1] # user_id)]

\* Mutant of Lookup: ratings.setdefault(user_id, {}), which adds the
\* missing user to the store.
LookupInserting(ratings, user_id) ==
    [value |-> DictGet(ratings, user_id),
     ratings |-> SetDefault(ratings, user_id, EmptyDict)]

\* target_ratings = ratings.get(user_id): the value, and the store as the
\* call leaves it.
Lookup(ratings, user_id) ==
    [value |-> DictGet(ratings, user_id), ratings |-> ratings]

\* Mutant of Falsy: the early return is never taken.
FalsyNever(target_ratings) == FALSE

\* "if not target_ratings": None and the empty dict are both falsy.
Falsy(target_ratings) == target_ratings = None \/ Len(target_ratings) = 0

\* The accumulators before the first other user.
InitialAccumulators == [scores |-> EmptyDict, sim_sums |-> EmptyDict]

\* Mutant of AddRating: the "item not in target_ratings" test is dropped.
AddRatingUnfiltered(target_ratings, acc, sim, item, rating) ==
    LET s0 == SetDefault(acc.scores, item, Zero)
        m0 == SetDefault(acc.sim_sums, item, Zero)
    IN  [scores   |-> Put(s0, item, FAdd(Get(s0, item), FMul(sim, ToFloat(rating)))),
         sim_sums |-> Put(m0, item, FAdd(Get(m0, item), sim))]

\* Mutant of AddRating: "sim_sums[item] = sim" for "+=".
AddRatingAssign(target_ratings, acc, sim, item, rating) ==
    IF ~Has(target_ratings, item)
    THEN LET s0 == SetDefault(acc.scores, item, Zero)
         IN  [scores   |-> Put(s0, item, FAdd(Get(s0, item), FMul(sim, ToFloat(rating)))),
              sim_sums |-> Put(acc.sim_sums, item, sim)]
    ELSE acc

\* Mutant of AddRating: "sim_sums[item] += 1", the raters are counted.
AddRatingCounting(target_ratings, acc, sim, item, rating) ==
    IF ~Has(target_ratings, item)
    THEN LET s0 == SetDefault(acc.scores, item, Zero)
             m0 == SetDefault(acc.sim_sums, item, Zero)
         IN  [scores   |-> Put(s0, item, FAdd(Get(s0, item), FMul(sim, ToFloat(rating)))),
              sim_sums |-> Put(m0, item, FAdd(Get(m0, item), FromInt(1)))]
    ELSE acc

\* Mutant of AddRating: "scores[item] += rating", the weight is dropped.
AddRatingUnweighted(target_ratings, acc, sim, item, rating) ==
    IF ~Has(target_ratings, item)
    THEN LET s0 == SetDefault(acc.scores, item, Zero)
             m0 == SetDefault(acc.sim_sums, item, Zero)
         IN  [scores   |-> Put(s0, item, FAdd(Get(s0, item), ToFloat(rating))),
              sim_sums |-> Put(m0, item, FAdd(Get(m0, item), sim))]
    ELSE acc

\* One pass of the body of "for item, rating in other_ratings.items()".
AddRating(target_ratings, acc, sim, item, rating) ==
    IF ~Has(target_ratings, item)
    THEN LET s0 == SetDefault(acc.scores, item, Zero)
             m0 == SetDefault(acc.sim_sums, item, Zero)
         IN  [scores   |-> Put(s0, item, FAdd(Get(s0, item), FMul(sim, ToFloat(rating)))),
              sim_sums |-> Put(m0, item, FAdd(Get(m0, item), sim))]
    ELSE acc

\* for item, rating in other_ratings.items()
RECURSIVE AccumulateItems(_, _, _, _, _)
AccumulateItems(target_ratings, other_ratings, sim, acc, j) ==
    IF j > Len(other_ratings) THEN acc
    ELSE AccumulateItems(target_ratings, other_ratings, sim,
                         AddRating(target_ratings, acc, sim,
                                   other_ratings[j][1], other_ratings[j][2]),
                         j + 1)

\* The similarities of the rating vectors over the scores of the valid
\* range enumerated, evaluated once.
RECURSIVE VectorOf(_, _)
VectorOf(f, i) ==
    IF i > NumItems THEN << >>
    ELSE (IF AllItemIds[i] \in DOMAIN f
          THEN <<<<AllItemIds[i], f[AllItemIds[i]]>>>> ELSE << >>)
         \o VectorOf(f, i + 1)

Vectors(scoreSet) ==
    {VectorOf(f, 1) : f \in UNION {[S -> scoreSet] : S \in SUBSET Items}}

ValidVectors == Vectors(ValidScores)
RawVectors == Vectors(RawScores)

SimilarityTable ==
    [seed \in HashSeeds |->
        [p \in ValidVectors \X ValidVectors |->
            cosine_similarity(seed, p[1], p[2])]]

\* sim = cosine_similarity(target_ratings, other_ratings)
Similarity(seed, target_ratings, other_ratings) ==
    IF target_ratings \in ValidVectors /\ other_ratings \in ValidVectors
    THEN SimilarityTable[seed][<<target_ratings, other_ratings>>]
    ELSE cosine_similarity(seed, target_ratings, other_ratings)

\* Lines 44-50 reached with sim: the similarity is logged and the ratings
\* of the other user are accumulated.  An exception raised by the
\* similarity ends the call.
AccumulateWith(sim, user_id, target_ratings, st, other_user, other_ratings) ==
    IF sim.error # NoError
    THEN [st EXCEPT !.error = sim.error]
    ELSE [acc |-> AccumulateItems(target_ratings, other_ratings,
                                  sim.value, st.acc, 1),
          log |-> Append(st.log, <<user_id, other_user, sim.value>>),
          error |-> NoError]

\* One pass of the body of "for other_user, other_ratings in
\* ratings.items()" for a user other than the target.
AccumulateUser(seed, user_id, target_ratings, st, other_user, other_ratings) ==
    AccumulateWith(Similarity(seed, target_ratings, other_ratings),
                   user_id, target_ratings, st, other_user, other_ratings)

\* for other_user, other_ratings in ratings.items(): the accumulators and
\* the similarities logged, one line per other user.
RECURSIVE AccumulateUsers(_, _, _, _, _, _)
AccumulateUsers(seed, user_id, ratings, target_ratings, st, i) ==
    IF i > Len(ratings) \/ st.error # NoError THEN st
    ELSE IF ratings[i][1] = user_id
         THEN AccumulateUsers(seed, user_id, ratings, target_ratings, st, i + 1)
         ELSE AccumulateUsers(seed, user_id, ratings, target_ratings,
                  AccumulateUser(seed, user_id, target_ratings, st,
                                 ratings[i][1], ratings[i][2]),
                  i + 1)

\* Mutant of InitialPredictions: the list outlives the call (a module-level
\* or default-argument list) and still holds the previous call's entries.
StalePredictions == ret.predictions

\* predictions = []
InitialPredictions == << >>

\* Mutant of PredictionOf: an item of zero total similarity is kept with
\* score 0.
PredictionOfZeroScored(scores, sim_sums, k) ==
    LET item == scores[k][1]
    IN  IF ~Has(sim_sums, item) THEN [appended |-> << >>, error |-> KeyError]
        ELSE IF Get(sim_sums, item) # Zero
        THEN [appended |-> << <<item, Round2(FDiv(scores[k][2], Get(sim_sums, item)))>> >>,
              error |-> NoError]
        ELSE [appended |-> << <<item, 0>> >>, error |-> NoError]

\* predictions.append((item, round(q, 2))) for the quotient q, or the
\* exception the division raised.
Rounded(item, q) ==
    [appended |-> IF q.error = NoError THEN << <<item, Round2(q.value)>> >> ELSE << >>,
     error |-> q.error]

\* Mutant of PredictionOf: the "sim_sums[item] != 0" test is dropped.
PredictionOfUnguarded(scores, sim_sums, k) ==
    LET item == scores[k][1]
    IN  IF ~Has(sim_sums, item) THEN [appended |-> << >>, error |-> KeyError]
        ELSE Rounded(item, Divide(scores[k][2], Get(sim_sums, item)))

\* The body of "for item in scores" for the k-th key of scores: what it
\* appends to predictions (nothing when sim_sums[item] is 0) and the
\* exception it raises, if any.
PredictionOf(scores, sim_sums, k) ==
    LET item == scores[k][1]
    IN  IF ~Has(sim_sums, item) THEN [appended |-> << >>, error |-> KeyError]
        ELSE IF Get(sim_sums, item) # Zero
        THEN Rounded(item, Divide(scores[k][2], Get(sim_sums, item)))
        ELSE [appended |-> << >>, error |-> NoError]

\* predictions after one pass p of the loop body.
Extended(out, p) ==
    [predictions |-> out.predictions \o p.appended, error |-> p.error]

\* for item in scores: predictions grows in the insertion order of scores.
RECURSIVE Predict(_, _, _, _)
Predict(scores, sim_sums, out, k) ==
    IF k > Len(scores) \/ out.error # NoError THEN out
    ELSE Predict(scores, sim_sums,
                 Extended(out, PredictionOf(scores, sim_sums, k)), k + 1)

\* Mutant of Before: reverse=True is dropped, the sort ascends.
BeforeAscending(p, q) == p[2] < q[2]

\* The sort key order of predictions.sort(key=lambda x: x[1], reverse=True):
\* p goes before q when its score is strictly higher.
Before(p, q) == p[2] > q[2]

\* Inserts p into the sorted seq behind every entry that p does not go
\* before: the sort is stable, equal keys keep their order.
RECURSIVE InsertSorted(_, _)
InsertSorted(sorted, p) ==
    IF sorted = << >> THEN <<p>>
    ELSE IF Before(p, Head(sorted)) THEN <<p>> \o sorted
    ELSE <<Head(sorted)>> \o InsertSorted(Tail(sorted), p)

\* predictions.sort(key=lambda x: x[1], reverse=True)
RECURSIVE SortPredictions(_, _)
SortPredictions(predictions, k) ==
    IF k = 0 THEN << >>
    ELSE InsertSorted(SortPredictions(predictions, k - 1), predictions[k])

\* Mutant of Slice: predictions[:top_n + 1].
SliceInclusive(predictions, top_n) ==
    SubSeq(predictions, 1, IF top_n + 1 < Len(predictions) THEN top_n + 1
                           ELSE Len(predictions))

\* predictions[:top_n] for top_n >= 0
Slice(predictions, top_n) ==
    SubSeq(predictions, 1, IF top_n < Len(predictions) THEN top_n
                           ELSE Len(predictions))

\* Lines 33-57 of recommend: the sorted predictions with the locals they
\* come from, whether the unknown-user message was printed, the similarity
\* lines logged, the exception raised (NoError if none) and the store as
\* the call leaves it.
\* Lines 57-58 reached with the accumulators st and the predictions out:
\* the list is sorted.
Sorted(ratings, st, out) ==
    [unknown |-> FALSE, scores |-> st.acc.scores, sim_sums |-> st.acc.sim_sums,
     predictions |-> IF out.error # NoError THEN << >>
                     ELSE SortPredictions(out.predictions, Len(out.predictions)),
     log |-> st.log, error |-> out.error, ratings |-> ratings]

\* Lines 52-56 reached with the accumulators st: the predictions are made,
\* unless an exception ended the call before.
Predicted(ratings, st) ==
    Sorted(ratings, st,
           IF st.error # NoError
           THEN [predictions |-> << >>, error |-> st.error]
           ELSE Predict(st.acc.scores, st.acc.sim_sums,
                        [predictions |-> InitialPredictions, error |-> NoError], 1))

Rank(seed, user_id, ratings) ==
    LET found == Lookup(ratings, user_id)
        target_ratings == found.value
    IN  IF Falsy(target_ratings)
        THEN [unknown |-> TRUE, scores |-> EmptyDict, sim_sums |-> EmptyDict,
              predictions |-> << >>, log |-> << >>, error |-> NoError,
              ratings |-> found.ratings]
        ELSE Predicted(found.ratings,
                       AccumulateUsers(seed, user_id, found.ratings, target_ratings,
                           [acc |-> InitialAccumulators, log |-> << >>,
                            error |-> NoError], 1))

\* The return of recommend: [] for an unknown user, else predictions[:top_n];
\* nothing is returned when an exception was raised.
Return(ranked, top_n) ==
    [result |-> IF ranked.unknown \/ ranked.error # NoError THEN << >>
                ELSE Slice(ranked.predictions, top_n),
     unknown |-> ranked.unknown, scores |-> ranked.scores,
     sim_sums |-> ranked.sim_sums, predictions |-> ranked.predictions,
     log |-> ranked.log, error |-> ranked.error, ratings |-> ranked.ratings]

\* recommend(user_id, ratings, top_n)
recommend(seed, user_id, ratings, top_n) ==
    Return(Rank(seed, user_id, ratings), top_n)

\* ------------------------------------------------------------- inputs
\* The store of users u1..un holding the vectors g[1]..g[n].  User ids
\* are only ever compared for equality, so their order in the file is
\* fixed; the target of a call ranges over all of them.
StoreOf(g) == [i \in DOMAIN g |-> <<AllUserIds[i], g[i]>>]

\* Scenario A of the specification (scores in thousandths).
ScenarioA ==
    << <<"u1", << <<"a", 5000>>, <<"b", 3000>> >> >>,
       <<"u2", << <<"a", 4000>>, <<"c", 5000>> >> >>,
       <<"u3", << <<"b", 2000>>, <<"c", 4000>> >> >> >>

\* A file whose keys are not in ascending order.
ScenarioUnordered ==
    << <<"u2", << <<"c", 5000>>, <<"a", 5000>>, <<"b", 5000>> >> >>,
       <<"u1", << <<"a", 5000>> >> >> >>

\* A score below the valid range.
ScenarioNegative ==
    << <<"u1", << <<"a", 5000>>, <<"b", -1000>> >> >> >>

\* A target u1 with one user who shares no item with it and one who does.
ScenarioStranger ==
    << <<"u1", << <<"a", 5000>> >> >>,
       <<"u2", << <<"c", 5000>> >> >>,
       <<"u3", << <<"a", 5000>>, <<"b", 5000>> >> >> >>

\* Ratings of three decimals (4.126 and 4.124), each from one user as
\* similar to the target u1 as can be.
ScenarioRounded ==
    << <<"u1", << <<"a", 5000>> >> >>,
       <<"u2", << <<"a", 5000>>, <<"b", 4126>> >> >>,
       <<"u3", << <<"a", 5000>>, <<"c", 4124>> >> >> >>

ScenarioStores ==
    {ScenarioA, ScenarioUnordered, ScenarioNegative, ScenarioStranger,
     ScenarioRounded}

\* ----------------------------------------------------- variables at rest
\* cosine_similarity is not being driven on its own.
SimIdle ==
    /\ sim_a = EmptyDict
    /\ sim_b = EmptyDict
    /\ sim_ab = Returned(Zero)
    /\ sim_ba = Returned(Zero)
    /\ sim_pc = "idle"

\* No concurrent calls are being made.
ConIdle ==
    /\ con_ratings = EmptyDict
    /\ threads = << >>
    /\ cells = << >>
    /\ overlapped = FALSE

\* No other order of accumulation is being tried.
NoOrder ==
    [order |-> << >>, first |-> {}, scores |-> EmptyDict, sim_sums |-> EmptyDict,
     merged_scores |-> EmptyDict, merged_sim_sums |-> EmptyDict]

OrdIdle ==
    /\ ord_ratings = EmptyDict
    /\ ord_user = Ghost
    /\ ord_out = NoOrder
    /\ ord_pc = "idle"

\* No word count is running.
WcIdle ==
    /\ wc_file = [readable |-> FALSE, lines |-> << >>]
    /\ stopwords = {}
    /\ chunks = << >>
    /\ results = << >>
    /\ workers = << >>
    /\ wc_main = [pc |-> "idle", i |-> 0]
    /\ final_count = EmptyDict
    /\ written = << >>

\* read_file_chunks is not being driven on its own.
RcIdle ==
    /\ rc_file = [readable |-> FALSE, lines |-> << >>]
    /\ rc_num_chunks = 0
    /\ rc_chunks = << >>
    /\ rc_pc = "idle"

\* No log is being parsed.
LogIdle ==
    /\ log_file = << >>
    /\ filter_date = ""
    /\ log_line = 0
    /\ ip_counter = EmptyDict
    /\ url_counter = EmptyDict
    /\ total_lines = 0
    /\ valid_lines = 0
    /\ log_ret = << >>
    /\ log_pc = "idle"

\* --------------------------------------------------------------- main
NoCall ==
    [result |-> << >>, unknown |-> FALSE, scores |-> EmptyDict,
     sim_sums |-> EmptyDict, predictions |-> << >>, log |-> << >>,
     error |-> NoError, ratings |-> EmptyDict]

\* The scores of the families enumerated are integers, whose sums are exact
\* in whatever order a set iterates: their seed is fixed, and drawn for the
\* scenario stores.
Init ==
    /\ \/ /\ hash_seed = 0
          /\ \/ \E n \in 0..MaxUsers : \E g \in [1..n -> ValidVectors] : raw = StoreOf(g)
             \/ \E n \in 1..MaxRawUsers : \E g \in [1..n -> RawVectors] : raw = StoreOf(g)
       \/ /\ hash_seed \in HashSeeds
          /\ raw \in ScenarioStores
    /\ main_ratings = EmptyDict
    /\ load_error = NoError
    /\ pc = "start"
    /\ ncalls = 0
    /\ last_user_id = Ghost
    /\ last_top_n = DefaultTopN
    /\ ret = NoCall
    /\ repeated = FALSE
    /\ agreed = FALSE
    /\ failed_before = FALSE
    /\ SimIdle
    /\ ConIdle
    /\ OrdIdle
    /\ WcIdle
    /\ RcIdle
    /\ LogIdle

\* ratings = load_ratings('ratings.json'); if not ratings: return
Load ==
    /\ pc = "start"
    /\ LET r == load_ratings(raw)
       IN  /\ main_ratings' = r.store
           /\ load_error' = r.error
           /\ pc' = IF Len(r.store) = 0 THEN "exit" ELSE "ready"
    /\ UNCHANGED <<hash_seed, raw, ncalls, last_user_id, last_top_n, ret,
                   repeated, agreed, failed_before>>
    /\ UNCHANGED notMain

\* recommend(u, ratings, top_n) on the store held, for any top_n in
\* 0..DefaultTopN.  The ranking does not read top_n, so it is evaluated
\* once per user.
CallRecommend(u) ==
    /\ \E ranked \in {Rank(hash_seed, u, main_ratings)} :
           \E n \in 0..DefaultTopN :
             /\ ret' = Return(ranked, n)
             /\ main_ratings' = ranked.ratings
             /\ last_top_n' = n
             /\ repeated' = (ncalls > 0 /\ u = last_user_id /\ n = last_top_n)
             /\ agreed' = (ncalls > 0 /\ ret'.result = ret.result)
    /\ last_user_id' = u
    /\ ncalls' = ncalls + 1
    /\ failed_before' = (failed_before \/ (ncalls > 0 /\ ret.unknown))

\* user_id = input(...); recommendations = recommend(user_id, ratings, top_n);
\* main prints them and returns.
Query(u) ==
    /\ pc = "ready"
    /\ CallRecommend(u)
    /\ pc' = "exit"
    /\ UNCHANGED <<hash_seed, raw, load_error>>
    /\ UNCHANGED notMain

Next ==
    \/ Load
    \/ \E u \in Users \cup {Ghost} : Query(u)

Spec == Init /\ [][Next]_vars

\* ------------------------------------------------------------ sessions
\* A caller of the library that loads a store and then makes up to
\* MaxCalls calls of recommend on it.
SessionStores ==
    {StoreOf(g) : g \in UNION {[1..n -> ValidVectors] : n \in 0..2}}
        \cup ScenarioStores

SessionInit ==
    /\ hash_seed \in HashSeeds
    /\ raw \in SessionStores
    /\ main_ratings = EmptyDict
    /\ load_error = NoError
    /\ pc = "start"
    /\ ncalls = 0
    /\ last_user_id = Ghost
    /\ last_top_n = DefaultTopN
    /\ ret = NoCall
    /\ repeated = FALSE
    /\ agreed = FALSE
    /\ failed_before = FALSE
    /\ SimIdle
    /\ ConIdle
    /\ OrdIdle
    /\ WcIdle
    /\ RcIdle
    /\ LogIdle

\* ratings = load_ratings(path), kept whatever it holds
SessionLoad ==
    /\ pc = "start"
    /\ LET r == load_ratings(raw)
       IN  /\ main_ratings' = r.store
           /\ load_error' = r.error
    /\ pc' = "session"
    /\ UNCHANGED <<hash_seed, raw, ncalls, last_user_id, last_top_n, ret,
                   repeated, agreed, failed_before>>
    /\ UNCHANGED notMain

\* one more call of recommend on the store held
Call(u) ==
    /\ pc = "session"
    /\ ncalls < MaxCalls
    /\ CallRecommend(u)
    /\ UNCHANGED <<hash_seed, raw, load_error, pc>>
    /\ UNCHANGED notMain

SessionNext ==
    \/ SessionLoad
    \/ \E u \in Users \cup {Ghost} : Call(u)

SessionSpec == SessionInit /\ [][SessionNext]_vars

\* ========================================================= properties
\* The rating vector of the last call's target (None for an unknown user).
TargetRatings == DictGet(main_ratings, last_user_id)

\* The items of a list of (item, score) pairs.
ItemsOf(list) == {list[i][1] : i \in DOMAIN list}

\* The positions in the store of the users other than the target.
Others == {i \in DOMAIN main_ratings : main_ratings[i][1] # last_user_id}

\* The positions of the other users that rated item.
Raters(item) == {i \in Others : Has(main_ratings[i][2], item)}

\* The items some other user rated and the target did not.
Candidates ==
    {item \in Items : Raters(item) # {} /\ ~Has(TargetRatings, item)}

\* The last call found its target: recommend went past the early return.
Answered == ncalls > 0 /\ ~ret.unknown

\* C1: no item returned by recommend is a key of the target's own rating
\* vector.
C1_NoSelfRecommendation ==
    ncalls > 0 => \A item \in ItemsOf(ret.result) : ~Has(TargetRatings, item)

\* C1 witness: a non-empty result for a target, one of whose own items
\* another user rated too.
C1_Witness ==
    /\ Answered
    /\ ret.result # << >>
    /\ \E item \in Keys(TargetRatings) : Raters(item) # {}

\* The positions <<user index, item index>> of the raw scores outside 0..5.
OutOfRange ==
    {p \in (DOMAIN raw) \X (1..Len(AllItemIds)) :
        /\ p[2] <= Len(raw[p[1]][2])
        /\ ~(0 <= raw[p[1]][2][p[2]][2] /\ raw[p[1]][2][p[2]][2] <= 5 * ScoreUnit)}

\* The first of them in the order of the file.
FirstOutOfRange ==
    CHOOSE p \in OutOfRange :
        \A q \in OutOfRange : p[1] < q[1] \/ (p[1] = q[1] /\ p[2] <= q[2])

\* C2: the load accepts the raw mapping iff every score is within 0..5
\* (inclusive); otherwise the error names the user, item and score of the
\* first out-of-range rating, the store is empty and no query is issued.
C2_LoadValidates ==
    pc # "start" =>
        /\ (load_error = NoError) <=> (OutOfRange = {})
        /\ OutOfRange = {} => main_ratings = raw
        /\ OutOfRange # {} =>
              /\ load_error = <<raw[FirstOutOfRange[1]][1],
                                raw[FirstOutOfRange[1]][2][FirstOutOfRange[2]][1],
                                raw[FirstOutOfRange[1]][2][FirstOutOfRange[2]][2]>>
              /\ main_ratings = EmptyDict
              /\ pc = "exit"
              /\ ncalls = 0

\* C2 witness: a rejected file with two out-of-range scores, the first of
\* them behind a valid rating of an earlier user.
C2_Witness ==
    /\ pc = "exit"
    /\ load_error # NoError
    /\ Cardinality(OutOfRange) >= 2
    /\ FirstOutOfRange[1] > 1
    /\ Len(raw[1][2]) > 0

\* C3: for a target that is not a key of the store, recommend signals the
\* unknown user and returns [], with no similarity computed and nothing
\* accumulated or ranked.
C3_UnknownUser ==
    (ncalls > 0 /\ ~Has(main_ratings, last_user_id)) =>
        /\ ret.unknown
        /\ ret.result = << >>
        /\ ret.log = << >>
        /\ ret.scores = EmptyDict
        /\ ret.sim_sums = EmptyDict
        /\ ret.predictions = << >>

\* C3 witness: a call for a user that is no key of a store in which two
\* users share a rated item.
C3_Witness ==
    /\ ncalls > 0
    /\ ~Has(main_ratings, last_user_id)
    /\ \E i, j \in DOMAIN main_ratings :
          i # j /\ Keys(main_ratings[i][2]) \cap Keys(main_ratings[j][2]) # {}

\* C4: the result is the first min(top_n, k) of the k sorted predictions:
\* at most top_n long, empty for top_n = 0, and no omitted prediction has a
\* strictly higher score than a returned one.
C4_TopN ==
    ncalls > 0 =>
        /\ Len(ret.result) <= last_top_n
        /\ last_top_n = 0 => ret.result = << >>
        /\ Len(ret.result) = IF last_top_n < Len(ret.predictions)
                             THEN last_top_n ELSE Len(ret.predictions)
        /\ \A i \in DOMAIN ret.result : ret.result[i] = ret.predictions[i]
        /\ \A i \in DOMAIN ret.predictions : \A j \in DOMAIN ret.result :
              i > Len(ret.result) => ~(ret.predictions[i][2] > ret.result[j][2])

\* C4 witness: a call that cuts a prediction off, the one kept scoring
\* strictly higher.
C4_Witness ==
    /\ Answered
    /\ last_top_n = 1
    /\ Len(ret.predictions) = 2
    /\ ret.predictions[1][2] > ret.predictions[2][2]

\* C5: the returned sequence is sorted by score, non-increasing.
C5_SortedDescending ==
    ncalls > 0 =>
        \A i, j \in DOMAIN ret.result :
            i < j => ret.result[i][2] >= ret.result[j][2]

\* The position of item among the keys of a dict.
KeyIndex(d, item) == CHOOSE i \in DOMAIN d : d[i][1] = item

\* C5 witness: two returned items of different scores, the higher one
\* accumulated second.
C5_Witness ==
    /\ Answered
    /\ Len(ret.result) = 2
    /\ ret.result[1][2] > ret.result[2][2]
    /\ KeyIndex(ret.scores, ret.result[1][1]) > KeyIndex(ret.scores, ret.result[2][1])

\* C6: the result is ordered by score descending and, among
\* equal scores, by item identifier ascending.
C6_TotalOrder ==
    ncalls > 0 =>
        \A i, j \in DOMAIN ret.result :
            i < j =>
                \/ ret.result[i][2] > ret.result[j][2]
                \/ /\ ret.result[i][2] = ret.result[j][2]
                   /\ ItemRank(ret.result[i][1]) < ItemRank(ret.result[j][1])

SimilarityTo(i) ==
    Similarity(hash_seed, TargetRatings, main_ratings[i][2]).value

\* C8: an item whose similarity_sum is 0 (every other user who rated it
\* has similarity 0 to the target) is in no prediction; a target that
\* shares no rated item with any other user gets [].
C8_ZeroSimilarityExcluded ==
    Answered =>
        /\ \A k \in DOMAIN ret.sim_sums :
              ret.sim_sums[k][2] = Zero =>
                  ret.sim_sums[k][1] \notin ItemsOf(ret.predictions)
        /\ \A item \in Candidates :
              (\A i \in Raters(item) : SimilarityTo(i) = Zero) =>
                  item \notin ItemsOf(ret.predictions)
        /\ (\A i \in Others :
                Keys(TargetRatings) \cap Keys(main_ratings[i][2]) = {}) =>
              ret.result = << >>

\* C8 witness: an uncut result next to an accumulated item of zero total
\* similarity.
C8_Witness ==
    /\ Answered
    /\ ret.result # << >>
    /\ last_top_n >= Len(ret.scores)
    /\ \E k \in DOMAIN ret.sim_sums : ret.sim_sums[k][2] = Zero

\* C9: with top_n no less than the number of candidate items, every
\* candidate rated by some other user of non-zero similarity is returned;
\* on Scenario A, recommend(u1, top_n=2) holds c and neither a nor b.
C9_SimilarRaterPredicted ==
    Answered =>
        /\ last_top_n >= Cardinality(Candidates) =>
              \A item \in Candidates :
                  (\E i \in Raters(item) : SimilarityTo(i) # Zero) =>
                      item \in ItemsOf(ret.result)
        /\ (main_ratings = ScenarioA /\ last_user_id = "u1" /\ last_top_n = 2) =>
              /\ "c" \in ItemsOf(ret.result)
              /\ "a" \notin ItemsOf(ret.result)
              /\ "b" \notin ItemsOf(ret.result)

\* C9 witness: recommend(u1, top_n=2) on Scenario A.
C9_Witness ==
    /\ Answered
    /\ main_ratings = ScenarioA
    /\ last_user_id = "u1"
    /\ last_top_n = 2

\* The positions of the other users that rated item, in store order.
RaterSeq(item) ==
    SelectSeq([i \in DOMAIN main_ratings |-> i], LAMBDA i : i \in Raters(item))

\* The similarities of the target to the users at the positions raters.
SimilaritiesTo(raters) == [k \in DOMAIN raters |-> SimilarityTo(raters[k])]

\* weighted_sum[item]: the sum, in store order, of similarity * rating
\* over the users at the positions raters, of similarities sims.
WeightedSum(item, raters, sims) ==
    Sum([k \in DOMAIN raters |->
            FMul(sims[k], Value(main_ratings[raters[k]][2], item))])

\* similarity_sum[item]: the sum of the similarities of the same users.
SimilaritySum(sims) == Sum(sims)

\* C10: every candidate item of non-zero similarity_sum is predicted
\* weighted_sum / similarity_sum, rounded to 2 decimals.
C10_WeightedAverage ==
    Answered =>
        \A item \in Candidates :
            \A raters \in {RaterSeq(item)} :
                \A sims \in {SimilaritiesTo(raters)} :
                    \A similarity_sum \in {SimilaritySum(sims)} :
                        similarity_sum # Zero =>
                            <<item, Round2(FDiv(WeightedSum(item, raters, sims),
                                               similarity_sum))>>
                                \in {ret.predictions[k] : k \in DOMAIN ret.predictions}

\* C10 witness: a returned item that two users of different non-zero
\* similarity rated differently.
C10_Witness ==
    /\ Answered
    /\ \E item \in ItemsOf(ret.result) : \E i, j \in Raters(item) :
          /\ SimilarityTo(i) # Zero
          /\ SimilarityTo(j) # Zero
          /\ SimilarityTo(i) # SimilarityTo(j)
          /\ Get(main_ratings[i][2], item) # Get(main_ratings[j][2], item)

\* ================================================== cosine_similarity
\* cosine_similarity on its own: two rating vectors, and the call made
\* both ways round in one process.
MainIdle ==
    /\ raw = EmptyDict
    /\ main_ratings = EmptyDict
    /\ load_error = NoError
    /\ pc = "idle"
    /\ ncalls = 0
    /\ last_user_id = Ghost
    /\ last_top_n = DefaultTopN
    /\ ret = NoCall
    /\ repeated = FALSE
    /\ agreed = FALSE
    /\ failed_before = FALSE

\* Three ratings of 1.
VectorOnes == << <<"a", 1000>>, <<"b", 1000>>, <<"c", 1000>> >>

\* Two vectors of fractional scores, the keys of the second in another
\* order.
VectorFractional1 == << <<"a", 800>>, <<"b", 3600>>, <<"c", 4800>> >>
VectorFractional2 == << <<"b", 400>>, <<"a", 1600>>, <<"c", 700>> >>

SimVectors ==
    ValidVectors \cup {VectorOnes, VectorFractional1, VectorFractional2}

SimInit ==
    /\ hash_seed \in HashSeeds
    /\ sim_a \in SimVectors
    /\ sim_b \in SimVectors
    /\ sim_ab = Returned(Zero)
    /\ sim_ba = Returned(Zero)
    /\ sim_pc = "start"
    /\ MainIdle
    /\ ConIdle
    /\ OrdIdle
    /\ WcIdle
    /\ RcIdle
    /\ LogIdle

\* cosine_similarity(sim_a, sim_b); cosine_similarity(sim_b, sim_a)
Compare ==
    /\ sim_pc = "start"
    /\ sim_ab' = cosine_similarity(hash_seed, sim_a, sim_b)
    /\ sim_ba' = cosine_similarity(hash_seed, sim_b, sim_a)
    /\ sim_pc' = "done"
    /\ UNCHANGED <<hash_seed, sim_a, sim_b>>
    /\ UNCHANGED notSim

SimNext == Compare

SimSpec == SimInit /\ [][SimNext]_vars

\* C11: cosine_similarity(a, b) = cosine_similarity(b, a) for all
\* rating vectors a and b.
C11_Symmetric == sim_pc = "done" => sim_ab = sim_ba

One == FromInt(1)

\* C12: the similarity is at most 1 (it is never negative, no float of the
\* model being so), and the squared dot product over the common items
\* does not exceed the product of the two sums of squares.
C12_Bounded ==
    sim_pc = "done" => /\ ~FLess(One, sim_ab.value)
                       /\ ~FLess(One, sim_ba.value)

\* The items both vectors rate.
Shared == Keys(sim_a) \cap Keys(sim_b)

\* Every score of d on the shared items is 0.
AllZeroOnShared(d) == \A item \in Shared : Get(d, item) = 0

\* C13: with no common item key, or with all scores of either vector on
\* the common items 0, cosine_similarity returns exactly 0 and does not
\* divide.
C13_ZeroWithoutDividing ==
    (sim_pc = "done" /\ (Shared = {} \/ AllZeroOnShared(sim_a) \/ AllZeroOnShared(sim_b))) =>
        /\ sim_ab = Returned(Zero)
        /\ sim_ba = Returned(Zero)

\* C13 witness: two vectors sharing two items, the first all 0 on them and
\* the second not, compared.
C13_Witness ==
    /\ sim_pc = "done"
    /\ Cardinality(Shared) = 2
    /\ AllZeroOnShared(sim_a)
    /\ ~AllZeroOnShared(sim_b)
    /\ sim_ab = Returned(Zero)

\* ============================================================ recommend
\* C14: a call of recommend, answered or not, leaves the rating store as
\* it found it.
C14_StoreUnchanged ==
    [][ncalls' # ncalls => main_ratings' = main_ratings]_vars

\* C14 witness: an answered call that accumulated two items, on a store
\* that is still what the file held.
C14_Witness ==
    /\ Answered
    /\ Len(main_ratings) = 3
    /\ main_ratings = raw
    /\ ret.ratings = raw
    /\ Len(ret.scores) = 2

\* The accumulated items of non-zero total similarity.
Predictable ==
    {k \in DOMAIN ret.scores : Get(ret.sim_sums, ret.scores[k][1]) # Zero}

\* C15: on a store of scores within 0..5, for every target and every
\* top_n >= 0, recommend ends without raising (no division by zero, no
\* missing key); an empty store and a target of empty vector give [], and
\* the items of zero total similarity are left out of the list.
C15_NoRuntimeError ==
    ncalls > 0 =>
        /\ ret.error = NoError
        /\ (main_ratings = EmptyDict \/ Falsy(TargetRatings)) => ret.result = << >>
        /\ Len(ret.result) = IF last_top_n < Cardinality(Predictable)
                             THEN last_top_n ELSE Cardinality(Predictable)

\* C15 witness: a call that returned a prediction and left out an item of
\* zero total similarity.
C15_Witness ==
    /\ Answered
    /\ ret.error = NoError
    /\ Len(ret.result) = 1
    /\ last_top_n > 1
    /\ Len(ret.scores) = 2

\* C16: once a call has failed for an unknown user, every later call
\* behaves as the same call on the store as loaded: it returns, logs and
\* leaves behind what it would had the failed call not been made.
C16_FailedQueryHarmless ==
    failed_before =>
        ret = recommend(hash_seed, last_user_id, load_ratings(raw).store,
                        last_top_n)

\* C16 witness: a call for an unknown user followed by a call that
\* returned a prediction.
C16_Witness ==
    /\ failed_before
    /\ ncalls = 2
    /\ Answered
    /\ ret.result # << >>

\* ===================================================== concurrent calls
\* NumThreads threads call recommend on one store, with no lock.  A thread
\* may be switched out between any two passes of a loop body; the steps of
\* a call are the lookup of the target, the head of the loop over the
\* users (with the similarity), one pass of the loop over a user's items,
\* and the prediction, sort and slice.
Threads == 1..NumThreads

\* Mutant of AccumulatorsOf: scores and sim_sums are module-level dicts,
\* the same for every call.
AccumulatorsShared(t) == 1

\* scores = {}; sim_sums = {}: the dicts are created by the call, and
\* belong to it.
AccumulatorsOf(t) == t

NotCalled ==
    [pc |-> "call", user_id |-> Ghost, top_n |-> 0, target_ratings |-> None,
     i |-> 0, j |-> 0, sim |-> Zero, unknown |-> FALSE, error |-> NoError,
     result |-> << >>]

\* The stores shared: the valid scenario stores, and the stores of two
\* users over the first two items.
ConcStores ==
    {s \in ScenarioStores : load_ratings(s).error = NoError}
        \cup {StoreOf(g) : g \in [1..2 -> {v \in ValidVectors : ~Has(v, "c")}]}

ConcInit ==
    /\ hash_seed \in HashSeeds
    /\ con_ratings \in ConcStores
    /\ threads = [t \in Threads |-> NotCalled]
    /\ cells = [t \in Threads |-> InitialAccumulators]
    /\ overlapped = FALSE
    /\ MainIdle
    /\ SimIdle
    /\ OrdIdle
    /\ WcIdle
    /\ RcIdle
    /\ LogIdle

\* Another call is between its first step and its last.
OthersUnderWay(t) ==
    \E o \in Threads \ {t} : threads[o].pc \notin {"call", "done"}

\* What every step of thread t does to the history.
Step(t) ==
    /\ overlapped' = (overlapped \/ OthersUnderWay(t))
    /\ UNCHANGED hash_seed
    /\ UNCHANGED notCon

\* recommend(u, ratings, n) is called: lines 33-38.
Begin(t, u, n) ==
    /\ threads[t].pc = "call"
    /\ LET found == Lookup(con_ratings, u)
       IN  /\ con_ratings' = found.ratings
           /\ IF Falsy(found.value)
              THEN /\ threads' = [threads EXCEPT ![t] =
                          [@ EXCEPT !.pc = "done", !.user_id = u, !.top_n = n,
                                    !.unknown = TRUE]]
                   /\ UNCHANGED cells
              ELSE /\ threads' = [threads EXCEPT ![t] =
                          [@ EXCEPT !.pc = "users", !.user_id = u, !.top_n = n,
                                    !.target_ratings = found.value, !.i = 1]]
                   /\ cells' = [cells EXCEPT ![AccumulatorsOf(t)] =
                                   InitialAccumulators]
    /\ Step(t)

\* The call me after line 43 gave sim, or raised.
Compared(me, sim) ==
    IF sim.error # NoError
    THEN [me EXCEPT !.pc = "done", !.error = sim.error]
    ELSE [me EXCEPT !.pc = "items", !.sim = sim.value, !.j = 1]

\* for other_user, other_ratings in ratings.items(): lines 40-43.
NextUser(t) ==
    /\ threads[t].pc = "users"
    /\ LET me == threads[t]
       IN  threads' = [threads EXCEPT ![t] =
               IF me.i > Len(con_ratings) THEN [me EXCEPT !.pc = "predict"]
               ELSE IF con_ratings[me.i][1] = me.user_id
                    THEN [me EXCEPT !.i = me.i + 1]
                    ELSE Compared(me, Similarity(hash_seed, me.target_ratings,
                                                 con_ratings[me.i][2]))]
    /\ UNCHANGED <<con_ratings, cells>>
    /\ Step(t)

\* for item, rating in other_ratings.items(): lines 45-50.
AddItem(t) ==
    /\ threads[t].pc = "items"
    /\ LET me == threads[t]
           other_ratings == con_ratings[me.i][2]
       IN  IF me.j > Len(other_ratings)
           THEN /\ threads' = [threads EXCEPT ![t] =
                                  [me EXCEPT !.pc = "users", !.i = me.i + 1]]
                /\ UNCHANGED cells
           ELSE /\ threads' = [threads EXCEPT ![t] = [me EXCEPT !.j = me.j + 1]]
                /\ cells' = [cells EXCEPT ![AccumulatorsOf(t)] =
                                AddRating(me.target_ratings, @, me.sim,
                                          other_ratings[me.j][1],
                                          other_ratings[me.j][2])]
    /\ UNCHANGED con_ratings
    /\ Step(t)

\* The call me after lines 52-56 gave the predictions out, or raised.
Returning(me, out) ==
    [me EXCEPT !.pc = "done", !.error = out.error,
               !.result = IF out.error # NoError THEN << >>
                          ELSE Slice(SortPredictions(out.predictions,
                                                     Len(out.predictions)),
                                     me.top_n)]

\* lines 52-58: the predictions are computed, sorted and cut.
Finish(t) ==
    /\ threads[t].pc = "predict"
    /\ threads' = [threads EXCEPT ![t] =
           Returning(threads[t],
                     Predict(cells[AccumulatorsOf(t)].scores,
                             cells[AccumulatorsOf(t)].sim_sums,
                             [predictions |-> << >>, error |-> NoError], 1))]
    /\ UNCHANGED <<con_ratings, cells>>
    /\ Step(t)

ConcNext ==
    \E t \in Threads :
        \/ \E u \in Users \cup {Ghost} : \E n \in {1, DefaultTopN} : Begin(t, u, n)
        \/ NextUser(t)
        \/ AddItem(t)
        \/ Finish(t)

ConcSpec == ConcInit /\ [][ConcNext]_vars

\* What the call of thread t returns when it is the only one.
Alone(t) ==
    recommend(hash_seed, threads[t].user_id, con_ratings, threads[t].top_n)

ScenarioOrder ==
    << <<"u1", << <<"a", 0>>, <<"b", 1000>> >> >>,
       <<"u2", << <<"a", 5000>>, <<"b", 3000>>, <<"c", 5000>> >> >>,
       <<"u3", << <<"b", 3000>>, <<"c", 4000>> >> >>,
       <<"u4", << <<"a", 4000>>, <<"b", 1000>>, <<"c", 2000>> >> >> >>

\* The stores tried: the valid scenario stores, and the stores of three
\* users over the first two items.
OrderStores ==
    {s \in ScenarioStores : load_ratings(s).error = NoError}
        \cup {ScenarioOrder}
        \cup {StoreOf(g) : g \in [1..3 -> {v \in ValidVectors : ~Has(v, "c")}]}

OrdInit ==
    /\ hash_seed = 0
    /\ ord_ratings \in OrderStores
    /\ ord_user \in {ord_ratings[i][1] : i \in DOMAIN ord_ratings}
    /\ ord_out = NoOrder
    /\ ord_pc = "start"
    /\ MainIdle
    /\ SimIdle
    /\ ConIdle
    /\ WcIdle
    /\ RcIdle
    /\ LogIdle

\* The positions in the store of the users other than the target.
OtherUsers == {i \in DOMAIN ord_ratings : ord_ratings[i][1] # ord_user}

\* The orders in which the other users can be processed.
Orders ==
    {order \in [1..Cardinality(OtherUsers) -> OtherUsers] :
        \A i, j \in DOMAIN order : i # j => order[i] # order[j]}

\* The store of the target and the users at the positions order, in that
\* order.
Reordered(order) ==
    << <<ord_user, Get(ord_ratings, ord_user)>> >>
        \o [k \in DOMAIN order |-> ord_ratings[order[k]]]

\* The store of the target and the users at the positions of part, in
\* store order.
Restricted(part) ==
    SelectSeq(ord_ratings,
              LAMBDA entry : entry[1] = ord_user
                             \/ \E i \in part : ord_ratings[i][1] = entry[1])

\* scores and sim_sums as a call left them.
AccumulatorsIn(ranked) == [scores |-> ranked.scores, sim_sums |-> ranked.sim_sums]

\* The accumulators of recommend(ord_user, ratings).
Accumulated(ratings) == AccumulatorsIn(Rank(hash_seed, ord_user, ratings))

\* The item-wise sum of two partial accumulator maps.
MergeMaps(m1, m2) ==
    [k \in DOMAIN m1 |->
        <<m1[k][1], IF Has(m2, m1[k][1]) THEN FAdd(m1[k][2], Get(m2, m1[k][1]))
                    ELSE m1[k][2]>>]
        \o SelectSeq(m2, LAMBDA entry : ~Has(m1, entry[1]))

\* What is kept of one trial: the accumulators got on the first store, and
\* the sum of those got on the second and the third.
Tried(order, first, got) ==
    [order |-> order, first |-> first,
     scores |-> got[1].scores, sim_sums |-> got[1].sim_sums,
     merged_scores |-> MergeMaps(got[2].scores, got[3].scores),
     merged_sim_sums |-> MergeMaps(got[2].sim_sums, got[3].sim_sums)]

\* The accumulators of recommend(ord_user, ratings) on each store given.
AccumulatedOn(stores) == [k \in DOMAIN stores |-> Accumulated(stores[k])]

\* The other users are processed in the order given, and then as the two
\* parts first and the rest, whose accumulators are added up.
Accumulate(order, first) ==
    /\ ord_pc = "start"
    /\ ord_out' = Tried(order, first,
                        AccumulatedOn(<<Reordered(order), Restricted(first),
                                        Restricted(OtherUsers \ first)>>))
    /\ ord_pc' = "done"
    /\ UNCHANGED <<hash_seed, ord_ratings, ord_user>>
    /\ UNCHANGED notOrd

OrdNext == \E order \in Orders : \E first \in SUBSET OtherUsers : Accumulate(order, first)

OrdSpec == OrdInit /\ [][OrdNext]_vars

\* A dict as a mapping, whatever the order of its keys.
AsMap(d) == {d[k] : k \in DOMAIN d}

\* C18: the accumulators of recommend are the same for every order of
\* processing the other users, and equal the item-wise sum of the partial
\* accumulators over any partition of the other users.
C18_OrderIndependent ==
    ord_pc = "done" =>
        /\ AsMap(ord_out.scores) = AsMap(Accumulated(ord_ratings).scores)
        /\ AsMap(ord_out.sim_sums) = AsMap(Accumulated(ord_ratings).sim_sums)
        /\ AsMap(ord_out.merged_scores) = AsMap(Accumulated(ord_ratings).scores)
        /\ AsMap(ord_out.merged_sim_sums) = AsMap(Accumulated(ord_ratings).sim_sums)

\* =========================================================== predictions
\* The other users that rated item and whose similarity to the target is
\* not 0: those whose rating weighs in the prediction.
Contributors(item) == {i \in Raters(item) : SimilarityTo(i) # Zero}

\* The ratings they gave it, in thousandths.
ContributedRatings(item) ==
    {Get(main_ratings[i][2], item) : i \in Contributors(item)}

\* The thousandths in a hundredth, the unit of a prediction.
PerHundredth == ScoreUnit \div 100

\* Every similarity logged by the last call is 0 or more.
SimilaritiesNonNegative ==
    \A k \in DOMAIN ret.log : ~FLess(ret.log[k][3], Zero)

\* C19 as stated: every similarity is >= 0, and each predicted score lies
\* between the lowest and the highest rating the item got from the
\* contributing users, hence in 0..5.
C19_WithinRatings ==
    Answered =>
        /\ SimilaritiesNonNegative
        /\ \A k \in DOMAIN ret.predictions :
              /\ \E lo, hi \in ContributedRatings(ret.predictions[k][1]) :
                    /\ lo <= ret.predictions[k][2] * PerHundredth
                    /\ ret.predictions[k][2] * PerHundredth <= hi
              /\ MinScore <= ret.predictions[k][2] * PerHundredth
              /\ ret.predictions[k][2] * PerHundredth <= MaxScore

\* A rating cut down, and raised, to 2 decimals.
RoundedDown(rating) == (rating \div PerHundredth) * PerHundredth
RoundedUp(rating) == ((rating + PerHundredth - 1) \div PerHundredth) * PerHundredth

\* C19: every similarity is >= 0, and each predicted score lies between
\* the lowest contributing rating cut down to 2 decimals and the highest
\* one raised to 2 decimals, hence in 0..5.
C19_WithinRoundedRatings ==
    Answered =>
        /\ SimilaritiesNonNegative
        /\ \A k \in DOMAIN ret.predictions :
              /\ \E lo, hi \in ContributedRatings(ret.predictions[k][1]) :
                    /\ RoundedDown(lo) <= ret.predictions[k][2] * PerHundredth
                    /\ ret.predictions[k][2] * PerHundredth <= RoundedUp(hi)
              /\ MinScore <= ret.predictions[k][2] * PerHundredth
              /\ ret.predictions[k][2] * PerHundredth <= MaxScore

\* C19 witness: a predicted score above the highest contributing rating
\* of its item, next to one below the lowest of its own.
C19_Witness ==
    /\ Answered
    /\ \E k \in DOMAIN ret.result :
          \A r \in ContributedRatings(ret.result[k][1]) :
              r < ret.result[k][2] * PerHundredth
    /\ \E k \in DOMAIN ret.result :
          \A r \in ContributedRatings(ret.result[k][1]) :
              r > ret.result[k][2] * PerHundredth

\* ============================================================ word count
\* src/Pj5/Ex5.py: main cuts the file into one chunk per thread, starts a
\* thread per chunk, joins them all and merges what they counted.
\*
\* The segmentation of jieba is taken as given: a line is the sequence of
\* the words lcut cuts it into, followed by its line end, and a text is
\* the sequence of the words of its lines.  A Counter is a dict word ->
\* count.

\* lines of the files enumerated
MaxLines == 3
\* num_threads, the --threads argument
NumWorkers == 2

\* The words of the files: two words of two Chinese characters, one of one
\* character, one in Latin letters; and the line end.
Words == {"shuju", "fenxi", "de", "data"}
LineEnd == "\n"

\* re.match(r'^[一-鿿]+$', w): the word is Chinese characters only.
Chinese(w) == w \in {"shuju", "fenxi", "de"}

\* len(w), in characters.
Chars(w) == IF w \in {"shuju", "fenxi"} THEN 2 ELSE IF w = "data" THEN 4 ELSE 1

\* The lines of the files: one word each.
Lines == {<<w, LineEnd>> : w \in Words}

\* The readable files of up to n lines.
ReadableFiles(n) ==
    UNION {{[readable |-> TRUE, lines |-> l] : l \in [1..k -> Lines]} : k \in 0..n}

\* The files: those that cannot be read, and those of up to MaxLines lines.
Unreadable == [readable |-> FALSE, lines |-> << >>]
Files == {Unreadable} \cup ReadableFiles(MaxLines)

\* The stop word lists loaded: none, and one word.
StopwordLists == {{}, {"fenxi"}}

\* The indexes of the threads, and of the slots of results.
Indexes == 0..(NumWorkers - 1)

\* Mutant of ListSlice: s[a+1:b], the slice starts one line late.
ListSliceLate(s, a, b) == SubSeq(s, a + 2, b)

\* s[a:b] of a list, for 0 <= a <= b <= len(s).
ListSlice(s, a, b) == SubSeq(s, a + 1, b)

\* ''.join(chunk)
RECURSIVE JoinLines(_)
JoinLines(chunk) ==
    IF chunk = << >> THEN << >> ELSE Head(chunk) \o JoinLines(Tail(chunk))

\* read_file_chunks(filepath, num_chunks): [] when the file cannot be
\* read, else the texts of the chunks, indexed from 0.
read_file_chunks(file, num_chunks) ==
    IF ~file.readable THEN << >>
    ELSE LET lines == file.lines
             chunk_size == Len(lines) \div num_chunks
         IN  [i \in 0..(num_chunks - 1) |->
                 JoinLines(IF i < num_chunks - 1
                           THEN ListSlice(lines, i * chunk_size, (i + 1) * chunk_size)
                           ELSE ListSlice(lines, (num_chunks - 1) * chunk_size,
                                          Len(lines)))]

\* The test of the list comprehension of count_words.
Kept(w, stop) == Chinese(w) /\ w \notin stop /\ 2 <= Chars(w) /\ Chars(w) <= 3

\* filtered = [w for w in words if ...]
Filtered(words, stop) == SelectSeq(words, LAMBDA w : Kept(w, stop))

\* Counter(filtered): the words counted in the order they come.
RECURSIVE CounterOf(_, _, _)
CounterOf(filtered, k, counter) ==
    IF k > Len(filtered) THEN counter
    ELSE CounterOf(filtered, k + 1,
                   Put(counter, filtered[k],
                       (IF Has(counter, filtered[k]) THEN Get(counter, filtered[k])
                        ELSE 0) + 1))

\* counter[w]: a missing word counts 0.
CountOf(counter, w) == IF Has(counter, w) THEN Get(counter, w) ELSE 0

\* A slot of results: None, or the Counter put there.
NoneSlot == [none |-> TRUE, value |-> EmptyDict]
SlotWith(counter) == [none |-> FALSE, value |-> counter]

\* final_count.update(c): the counts of c are added; update(None) adds
\* nothing.
RECURSIVE UpdateFrom(_, _, _)
UpdateFrom(counter, c, k) ==
    IF k > Len(c) THEN counter
    ELSE UpdateFrom(Put(counter, c[k][1], c[k][2] + CountOf(counter, c[k][1])),
                    c, k + 1)

Update(counter, slot) ==
    IF slot.none THEN counter ELSE UpdateFrom(counter, slot.value, 1)

\* Mutant of SlotOf: every thread is handed the index 0.
SlotShared(index) == 0

\* args=(chunks[i], stopwords, results, i): thread i is handed the index i.
SlotOf(index) == index

NotStarted == [pc |-> "new", text |-> << >>, index |-> 0, word_count |-> EmptyDict]

WcInit ==
    /\ wc_file \in Files
    /\ stopwords \in StopwordLists
    /\ chunks = << >>
    /\ results = << >>
    /\ workers = [i \in Indexes |-> NotStarted]
    /\ wc_main = [pc |-> "read", i |-> 0]
    /\ final_count = EmptyDict
    /\ written = << >>
    /\ hash_seed = 0
    /\ MainIdle
    /\ SimIdle
    /\ ConIdle
    /\ OrdIdle
    /\ RcIdle
    /\ LogIdle

\* main, lines 62-67: the file is cut; main returns when it got no chunk.
ReadChunks ==
    /\ wc_main.pc = "read"
    /\ chunks' = read_file_chunks(wc_file, NumWorkers)
    /\ IF chunks' = << >>
       THEN /\ wc_main' = [wc_main EXCEPT !.pc = "exit"]
            /\ UNCHANGED results
       ELSE /\ wc_main' = [pc |-> "start", i |-> 0]
            /\ results' = [i \in Indexes |-> NoneSlot]
    /\ UNCHANGED <<wc_file, stopwords, workers, final_count, written>>
    /\ UNCHANGED notWc

\* main, lines 69-72: one pass of the loop that starts the threads.
Start ==
    /\ wc_main.pc = "start"
    /\ workers' = [workers EXCEPT ![wc_main.i] =
                      [pc |-> "count", text |-> chunks[wc_main.i],
                       index |-> SlotOf(wc_main.i), word_count |-> EmptyDict]]
    /\ wc_main' = IF wc_main.i + 1 < NumWorkers
                  THEN [wc_main EXCEPT !.i = wc_main.i + 1]
                  ELSE [pc |-> "join", i |-> 0]
    /\ UNCHANGED <<wc_file, stopwords, chunks, results, final_count, written>>
    /\ UNCHANGED notWc

\* count_words, lines 24-33: the text is cut, filtered and counted.
Count(t) ==
    /\ workers[t].pc = "count"
    /\ workers' = [workers EXCEPT ![t] =
                      [@ EXCEPT !.pc = "write",
                                !.word_count =
                                    CounterOf(Filtered(workers[t].text, stopwords), 1,
                                              EmptyDict)]]
    /\ UNCHANGED <<wc_file, stopwords, chunks, results, wc_main, final_count,
                   written>>
    /\ UNCHANGED notWc

\* count_words, line 34: result_list[index] = word_count.
Write(t) ==
    /\ workers[t].pc = "write"
    /\ results' = [results EXCEPT ![workers[t].index] = SlotWith(workers[t].word_count)]
    /\ workers' = [workers EXCEPT ![t] = [@ EXCEPT !.pc = "log"]]
    /\ written' = Append(written, t)
    /\ UNCHANGED <<wc_file, stopwords, chunks, wc_main, final_count>>
    /\ UNCHANGED notWc

\* count_words, lines 35-36: the thread logs its time and ends.
End(t) ==
    /\ workers[t].pc = "log"
    /\ workers' = [workers EXCEPT ![t] = [@ EXCEPT !.pc = "ended"]]
    /\ UNCHANGED <<wc_file, stopwords, chunks, results, wc_main, final_count,
                   written>>
    /\ UNCHANGED notWc

\* main, lines 74-78: t.join() returns when the thread has ended.
Join ==
    /\ wc_main.pc = "join"
    /\ workers[wc_main.i].pc = "ended"
    /\ wc_main' = IF wc_main.i + 1 < NumWorkers
                  THEN [wc_main EXCEPT !.i = wc_main.i + 1]
                  ELSE [pc |-> "merge", i |-> 0]
    /\ final_count' = EmptyDict
    /\ UNCHANGED <<wc_file, stopwords, chunks, results, workers, written>>
    /\ UNCHANGED notWc

\* main, lines 79-80: one pass of the loop that merges the Counters.
Merge ==
    /\ wc_main.pc = "merge"
    /\ final_count' = Update(final_count, results[wc_main.i])
    /\ wc_main' = IF wc_main.i + 1 < NumWorkers
                  THEN [wc_main EXCEPT !.i = wc_main.i + 1]
                  ELSE [pc |-> "merged", i |-> 0]
    /\ UNCHANGED <<wc_file, stopwords, chunks, results, workers, written>>
    /\ UNCHANGED notWc

WcNext ==
    \/ ReadChunks
    \/ Start
    \/ Join
    \/ Merge
    \/ \E t \in Indexes : Count(t) \/ Write(t) \/ End(t)

WcSpec == WcInit /\ [][WcNext]_vars

\* How many times w comes in a sequence of words.
Occurrences(w, words) == Cardinality({k \in DOMAIN words : words[k] = w})

\* The sum over the chunks of the count of w in the chunk's kept words.
RECURSIVE SumOfCounts(_, _)
SumOfCounts(w, i) ==
    IF i = NumWorkers THEN 0
    ELSE Occurrences(w, Filtered(chunks[i], stopwords)) + SumOfCounts(w, i + 1)

\* C20: a step changes slot i of results only when it is thread i's write
\* of its own Counter, so no two threads share a slot; once main has joined
\* all threads no slot is None; and under every schedule the merged
\* final_count gives each word the sum of its counts in the chunks.
C20_SlotsAndMerge ==
    /\ [][\A i \in Indexes :
             (wc_main.pc # "read" /\ results'[i] # results[i]) =>
                 /\ workers[i].pc = "write"
                 /\ workers'[i].pc = "log"
                 /\ results'[i] = SlotWith(workers[i].word_count)]_vars
    /\ [](wc_main.pc \in {"merge", "merged"} =>
             \A i \in Indexes : ~results[i].none)
    /\ [](wc_main.pc = "merged" =>
             /\ \A w \in Words \cup {LineEnd} :
                   CountOf(final_count, w) = SumOfCounts(w, 0)
             /\ \A k \in DOMAIN final_count : final_count[k][2] > 0)

\* C20 witness: the last thread wrote before the first, both counted
\* the same word, and main has merged the two counts of it, 3 in all.
C20_Witness ==
    /\ wc_main.pc = "merged"
    /\ written = <<1, 0>>
    /\ \E w \in Words :
          /\ CountOf(results[0].value, w) = 1
          /\ CountOf(results[1].value, w) = 2
          /\ CountOf(final_count, w) = 3

\* ====================================================== read_file_chunks
\* read_file_chunks called on its own, with any file of up to MaxFileLines
\* lines and any num_chunks in 1..MaxChunks.

\* lines of the files cut
MaxFileLines == 5
\* num_chunks
MaxChunks == 4

RcInit ==
    /\ rc_file \in {Unreadable} \cup ReadableFiles(MaxFileLines)
    /\ rc_num_chunks \in 1..MaxChunks
    /\ rc_chunks = << >>
    /\ rc_pc = "start"
    /\ hash_seed = 0
    /\ MainIdle
    /\ SimIdle
    /\ ConIdle
    /\ OrdIdle
    /\ WcIdle
    /\ LogIdle

\* chunks = read_file_chunks(file_path, num_chunks)
ReadFile ==
    /\ rc_pc = "start"
    /\ rc_chunks' = read_file_chunks(rc_file, rc_num_chunks)
    /\ rc_pc' = "done"
    /\ UNCHANGED <<rc_file, rc_num_chunks>>
    /\ UNCHANGED notRc

RcNext == ReadFile

RcSpec == RcInit /\ [][RcNext]_vars

\* The texts at the indexes i, i+1, ... of cut, one after the other.
RECURSIVE Concatenated(_, _)
Concatenated(cut, i) ==
    IF i \notin DOMAIN cut THEN << >> ELSE cut[i] \o Concatenated(cut, i + 1)

\* C21: for a readable file, read_file_chunks returns num_chunks chunks,
\* indexed 0..num_chunks-1, whose texts one after the other in index order
\* are the lines of the file in their order, none lost, doubled or moved,
\* also when the file has fewer lines than num_chunks.
C21_ChunksCoverFile ==
    (rc_pc = "done" /\ rc_file.readable) =>
        /\ DOMAIN rc_chunks = 0..(rc_num_chunks - 1)
        /\ Concatenated(rc_chunks, 0) = JoinLines(rc_file.lines)

\* C21 witness: a file of two different lines was cut into three chunks,
\* the first two of them empty.
C21_Witness ==
    /\ rc_pc = "done"
    /\ rc_file.readable
    /\ Len(rc_file.lines) = 2
    /\ rc_file.lines[1] # rc_file.lines[2]
    /\ rc_num_chunks = 3
    /\ rc_chunks[0] = << >>
    /\ rc_chunks[1] = << >>
    /\ rc_chunks[2] # << >>

\* ============================================================== parse_log
\* src/Pj4/Ex4-1.py.  A line of the log is what LOG_PATTERN finds in it:
\* the ip, the date of the time and the url of a well-formed entry, or
\* nothing.

\* lines of the log files
MaxLogLines == 3

Ips == {"1.1.1.1", "2.2.2.2"}
Dates == {"2024-01-01", "2024-01-02"}
Urls == {"/a", "/b"}

\* A line LOG_PATTERN finds nothing in.
Junk == [ip |-> "", date |-> "", url |-> ""]

\* The lines: the well-formed entries, and one that is not.
LogLines == [ip : Ips, date : Dates, url : Urls] \cup {Junk}

\* filter_date=None
NoFilter == ""

\* match = LOG_PATTERN.search(line): whether there is a match.
Matches(line) == line # Junk

LogInit ==
    /\ log_file \in UNION {[1..n -> LogLines] : n \in 0..MaxLogLines}
    /\ filter_date \in {NoFilter} \cup Dates
    /\ log_line = 0
    /\ ip_counter = EmptyDict
    /\ url_counter = EmptyDict
    /\ total_lines = 0
    /\ valid_lines = 0
    /\ log_ret = << >>
    /\ log_pc = "start"
    /\ hash_seed = 0
    /\ MainIdle
    /\ SimIdle
    /\ ConIdle
    /\ OrdIdle
    /\ WcIdle
    /\ RcIdle

\* Lines 12-16: the counters are created and the file is opened.
Open ==
    /\ log_pc = "start"
    /\ ip_counter' = EmptyDict
    /\ url_counter' = EmptyDict
    /\ total_lines' = 0
    /\ valid_lines' = 0
    /\ log_pc' = "loop"
    /\ UNCHANGED <<log_file, filter_date, log_line, log_ret>>
    /\ UNCHANGED notLog

\* Lines 17-22, one pass of "for line in f": the line is counted and
\* searched, a line without a match is warned about, and "continue", which
\* stands at the level of the "if" and not inside it, ends the pass for
\* every line.  Lines 23-34 are never reached.
ReadLine ==
    /\ log_pc = "loop"
    /\ log_line < Len(log_file)
    /\ log_line' = log_line + 1
    /\ total_lines' = total_lines + 1
    /\ Matches(log_file[log_line + 1]) \in BOOLEAN
    /\ UNCHANGED <<log_file, filter_date, ip_counter, url_counter, valid_lines,
                   log_ret, log_pc>>
    /\ UNCHANGED notLog

\* Counter.most_common(n): the entries by count, highest first, equal
\* counts in insertion order; the first n of them.
RECURSIVE MostCommonFrom(_, _, _)
MostCommonFrom(counter, k, sorted) ==
    IF k > Len(counter) THEN sorted
    ELSE MostCommonFrom(counter, k + 1,
             SelectSeq(sorted, LAMBDA e : e[2] >= counter[k][2])
                 \o <<counter[k]>>
                 \o SelectSeq(sorted, LAMBDA e : e[2] < counter[k][2]))

MostCommon(counter, n) ==
    SubSeq(MostCommonFrom(counter, 1, << >>), 1,
           IF Len(counter) < n THEN Len(counter) ELSE n)

\* Lines 35-36: the totals are logged and the top ten returned.
Close ==
    /\ log_pc = "loop"
    /\ log_line = Len(log_file)
    /\ log_ret' = <<MostCommon(ip_counter, 10), MostCommon(url_counter, 10)>>
    /\ log_pc' = "done"
    /\ UNCHANGED <<log_file, filter_date, log_line, ip_counter, url_counter,
                   total_lines, valid_lines>>
    /\ UNCHANGED notLog

LogNext == Open \/ ReadLine \/ Close

LogSpec == LogInit /\ [][LogNext]_vars

\* The lines that match LOG_PATTERN and pass the date filter, when one is
\* given.
ValidLines ==
    {k \in DOMAIN log_file :
        /\ Matches(log_file[k])
        /\ filter_date # NoFilter => log_file[k].date = filter_date}

\* C22: after parse_log has read the file, valid_lines is the number of
\* lines that match LOG_PATTERN and pass the date filter, each of them has
\* added one to the count of its ip and of its url, and no other line has.
C22_ValidLinesCounted ==
    log_pc = "done" =>
        /\ valid_lines = Cardinality(ValidLines)
        /\ \A ip \in Ips :
              CountOf(ip_counter, ip)
                  = Cardinality({k \in ValidLines : log_file[k].ip = ip})
        /\ \A url \in Urls :
              CountOf(url_counter, url)
                  = Cardinality({k \in ValidLines : log_file[k].url = url})

=============================================================================
